---- MODULE Spec2Model ----
(***************************************************************************)
(* The multi-agent orchestration loop of client/agents/common:             *)
(* AppRunner.run (runner.py) and ToolCallHandler (result_handler.py).      *)
(* One run() invocation is a small state machine over its local variables; *)
(* the backend's replies, the tools' results and the results of next_agent *)
(* functions are the inputs.                                               *)
(***************************************************************************)
EXTENDS Integers, Sequences, FiniteSets, TLC

\* ------------------------------------------------------------------ bounds
\* max_interactions ranges over 0..MaxTurns
MaxTurns == 2
\* tool calls the backend puts into one assistant message
MaxCalls == 2
\* tool calls the backend issues over one run
MaxToolCalls == 3
\* messages seeded in AppRunner.messages
MaxSeed == 1

\* ------------------------------------------------------------ identifiers
\* run() invocations on the one AppRunner; Spec drives the first
Runs == {1, 2}
\* Python's None, for agents and for names
None == "None"
\* the agent fixtures
AgentNames == {"A", "B", "C", "S", "D"}
\* the keys of context_variables and their values ("absent": no such key)
Keys == {"k1", "k2"}
Absent == "absent"
Vals == {"v1", "v2"}
Ctx == [Keys -> Vals \cup {Absent}]
EmptyCtx == [k \in Keys |-> Absent]
\* the dict objects a run's context_variables name can be bound to: the
\* caller's mapping "m", or the dict made by `context_variables or {}`
Own(r) == IF r = 1 THEN "own1" ELSE "own2"
DictIds == {"m", "own1", "own2"}
\* what the caller passes as context_variables
CtxArgs == {None, "m"}
Queries == {"q"}

\* --------------------------------------------------------------- fixtures
\* Agent(name, functions, response_model, next_agent, instructions, tool_choice):
\*   A  tool-calling agent, no policy, callable instructions
\*   B  no tools, no schema, no policy
\*   C  tool-calling agent whose next_agent is [B]
\*   S  schema-bound agent whose next_agent is [a function]
\*   D  schema-bound agent with a tool, tool_choice "auto" and no policy
\* next_agent is the attribute run() reads at runner.py l.106-108 and the
\* workflows under client/tests pass to Agent(...); absent, it is empty.
AgentDef ==
  [n \in AgentNames |->
     CASE n = "A" -> [name |-> "A", functions |-> <<"t1", "t2", "t3", "t4", "boom">>,
                      response_model |-> FALSE, next_agent |-> <<>>,
                      instructions |-> "callable",
                      tool_choice |-> None]
       [] n = "B" -> [name |-> "B", functions |-> <<>>,
                      response_model |-> FALSE, next_agent |-> <<>>,
                      instructions |-> "str",
                      tool_choice |-> None]
       [] n = "C" -> [name |-> "C", functions |-> <<"t3">>,
                      response_model |-> FALSE,
                      next_agent |-> <<[kind |-> "agent", agent |-> "B"]>>,
                      instructions |-> "str",
                      tool_choice |-> None]
       [] n = "S" -> [name |-> "S", functions |-> <<>>,
                      response_model |-> TRUE,
                      next_agent |-> <<[kind |-> "fn", agent |-> None]>>,
                      instructions |-> "callable",
                      tool_choice |-> None]
       [] n = "D" -> [name |-> "D", functions |-> <<"t3">>,
                      response_model |-> TRUE, next_agent |-> <<>>,
                      instructions |-> "str",
                      tool_choice |-> "auto"]]

\* Agent(...) is a pydantic model whose fields are only type-checked: no
\* validator relates functions to response_model, every descriptor is accepted
Constructible(a) == TRUE

\* FuncResult(value, agent, context_variables), types.py
FuncResult(value, agent, cv) ==
  [value |-> value, agent |-> agent, context_variables |-> cv]

\* What a tool returns when called: a FuncResult, an Agent, or another value.
\*   t1  FuncResult("ok", agent=B, {k1: v1})
\*   t2  FuncResult("v2", agent=C, {k1: v2, k2: v2})
\*   t3  the integer 42
\*   t4  the Agent B itself
\*   boom  nothing: it raises
ToolReturn(name) ==
  CASE name = "t1" -> [type |-> "FuncResult",
                       result |-> FuncResult(<<"ok">>, "B",
                                    [k \in Keys |-> IF k = "k1" THEN "v1" ELSE Absent]),
                       agent |-> None, other |-> 0]
    [] name = "t2" -> [type |-> "FuncResult",
                       result |-> FuncResult(<<"v2">>, "C", [k \in Keys |-> "v2"]),
                       agent |-> None, other |-> 0]
    [] name = "t4" -> [type |-> "Agent",
                       result |-> FuncResult(<<>>, None, EmptyCtx),
                       agent |-> "B", other |-> 0]
    [] name = "boom" -> [type |-> "raise",
                         result |-> FuncResult(<<>>, None, EmptyCtx),
                         agent |-> None, other |-> 0]
    [] OTHER       -> [type |-> "other",
                       result |-> FuncResult(<<>>, None, EmptyCtx),
                       agent |-> None, other |-> 42]

\* the argument strings of a call: valid JSON, or text json.loads rejects
GoodArgs == "{}"
BadArgs == "{"
\* the calls the backend may put into a message: a tool name ("ghost" is
\* registered with no agent) and its argument string
CallKinds ==
  [name : {"t1", "t2", "t3", "t4", "boom", "ghost"}, arguments : {GoodArgs}]
  \cup [name : {"t3", "ghost"}, arguments : {BadArgs}]

\* the elements of a list
Range(f) == {f[i] : i \in DOMAIN f}

\* ------------------------------------------------------------------ state
VARIABLES
  messages,          \* AppRunner.messages, the runner's persistent history
  max_interactions,  \* AppRunner.config.max_interactions
  dicts,             \* the contents of the dict objects, by identity
  run                \* the local variables of each run() invocation

vars == <<messages, max_interactions, dicts, run>>

\* ---------------------------------------------------------------- messages
Msg(role, content, sender, tool_calls, tool_call_id, tool_name) ==
  [role |-> role, content |-> content, sender |-> sender,
   tool_calls |-> tool_calls, tool_call_id |-> tool_call_id,
   tool_name |-> tool_name]

\* {"role": "user", "content": query}
UserMsg(query) == Msg("user", <<query>>, None, <<>>, 0, None)

\* the seeded histories: earlier user messages
SeedMsg == UserMsg("old")
Seeds == {<<>>, [i \in 1..MaxSeed |-> SeedMsg]}

\* TaskResponse(messages, agent, context_variables), types.py
TaskResponse(msgs, agent, cv) ==
  [messages |-> msgs, agent |-> agent, context_variables |-> cv]

\* dict.update: per-key overwrite
Update(cv, patch) ==
  [k \in Keys |-> IF patch[k] # Absent THEN patch[k] ELSE cv[k]]

\* the truth value of a dict
Truthy(cv) == cv # EmptyCtx

\* ------------------------------------------------------ ToolCallHandler
\* mutant: malformed arguments are taken for no arguments
JsonLoadsLenient(arguments) == [ok |-> TRUE]

\* json.loads(arguments): the keyword arguments, or a JSONDecodeError
JsonLoads(arguments) ==
  IF arguments = GoodArgs THEN [ok |-> TRUE] ELSE [ok |-> FALSE]

\* mutant: the lookup is skipped
NotInMapNever(name, function_map) == FALSE

\* name not in function_map
NotInMap(name, function_map) == name \notin function_map

\* f"Error: tool {name} not found"
NotFoundContent(name) == <<"Error: tool ", name, " not found">>

\* mutant: a returned Agent is cast to a string like any other value
HandleFunctionResultAgentAsText(raw) ==
  IF raw.type = "FuncResult" THEN raw.result
  ELSE IF raw.type = "Agent"
       THEN FuncResult(<<"Agent ", raw.agent>>, None, EmptyCtx)
       ELSE FuncResult(<<ToString(raw.other)>>, None, EmptyCtx)

\* __handle_function_result: normalise what the tool returned
HandleFunctionResult(raw) ==
  IF raw.type = "FuncResult" THEN raw.result
  ELSE IF raw.type = "Agent"
       THEN FuncResult(<<"{\"assistant\": \"", raw.agent, "\"}">>, raw.agent, EmptyCtx)
       ELSE FuncResult(<<ToString(raw.other)>>, None, EmptyCtx)

\* mutant: the first agent a call returns is kept
MergeAgentFirst(partial_agent, result_agent) ==
  IF partial_agent # None THEN partial_agent ELSE result_agent

\* if result.agent: partial_response.agent = result.agent
MergeAgent(partial_agent, result_agent) ==
  IF result_agent # None THEN result_agent ELSE partial_agent

\* what __handle_call leaves in partial_response.context_variables
MergeContext(partial_cv, result_cv) == partial_cv

ToolMsg(name, call_id, content) == Msg("tool", content, None, <<>>, call_id, name)

\* What a next_agent function may return: None, an Agent, or a FuncResult
\* (with or without an agent, with or without context_variables).
PolicyReturns ==
  {[type |-> "None", result |-> FuncResult(<<>>, None, EmptyCtx), agent |-> None, other |-> 0]}
  \cup {[type |-> "Agent", result |-> FuncResult(<<>>, None, EmptyCtx), agent |-> a, other |-> 0]
          : a \in {"B", "S"}}
  \cup {[type |-> "FuncResult", result |-> FuncResult(<<"switch">>, "B", EmptyCtx),
         agent |-> None, other |-> 0],
        [type |-> "FuncResult",
         result |-> FuncResult(<<"switch">>, "B",
                      [k \in Keys |-> IF k = "k1" THEN "v1" ELSE Absent]),
         agent |-> None, other |-> 0],
        [type |-> "FuncResult",
         result |-> FuncResult(<<"stay">>, None,
                      [k \in Keys |-> IF k = "k1" THEN "v2" ELSE Absent]),
         agent |-> None, other |-> 0]}

\* ------------------------------------------------------------ AppRunner
\* defaultdict(str, context_variables): a missing key reads as ""
DefaultDict(cv) == [k \in Keys |-> IF cv[k] = Absent THEN "" ELSE cv[k]]

\* mutant: a callable is called without the context (its default, {})
GetInstructionsNoContext(a, cv) ==
  IF AgentDef[a].instructions = "callable"
  THEN <<"prompt of ", a, "", "">>
  ELSE <<"prompt of ", a>>

\* Agent.get_instructions: a callable is called with the context, a string
\* is returned unchanged
GetInstructions(a, cv) ==
  IF AgentDef[a].instructions = "callable"
  THEN <<"prompt of ", a, cv["k1"], cv["k2"]>>
  ELSE <<"prompt of ", a>>

SystemMsg(content) == Msg("system", content, None, <<>>, 0, None)

\* __create_inference_request: the parameters of the backend call; `keys`
\* are the parameter names present
CreateInferenceRequest(a, history, cv) ==
  LET tools == AgentDef[a].functions
  IN  [messages |-> <<SystemMsg(GetInstructions(a, DefaultDict(cv)))>> \o history,
       keys |-> {"model", "messages", "tool_choice", "max_tokens"}
                \cup (IF tools # <<>> THEN {"parallel_tool_calls", "tools"} ELSE {})
                \cup (IF AgentDef[a].response_model THEN {"response_model"} ELSE {}),
       response_model |-> IF AgentDef[a].response_model THEN "schema" ELSE None,
       tool_choice |-> AgentDef[a].tool_choice,
       client |-> None]

\* the choice of the client and the parameters dropped for it (run, l.50-60)
ChooseClient(a, params) ==
  IF AgentDef[a].functions # <<>> /\ ~AgentDef[a].response_model
  THEN [params EXCEPT !.client = "openai",
                      !.keys = @ \ {"response_model"}]
  ELSE [params EXCEPT !.client = "instructor",
                      !.keys = (IF "tools" \in @
                                THEN @ \ {"tools", "parallel_tool_calls"}
                                ELSE @)
                               \cup (IF ~AgentDef[a].response_model
                                     THEN {"response_model"} ELSE {})]

\* mutant: the loop admits one turn too many
LoopGuardLe(loop_count, limit) == loop_count <= limit

\* while loop_count < self.config.max_interactions
LoopGuard(loop_count, limit) == loop_count < limit

\* mutant: the slice starts one message early, at the query
SliceEarly(history, init_len) == SubSeq(history, init_len, Len(history))

\* history[init_len:]
Slice(history, init_len) == SubSeq(history, init_len + 1, Len(history))

\* the tool calls of one backend reply: 1..n calls, ids following on `issued`
CallLists(n) ==
  UNION {[1..k -> CallKinds] : k \in 1..n}

WithIds(calls, issued) ==
  [i \in DOMAIN calls |->
     [id |-> issued + i, name |-> calls[i].name, arguments |-> calls[i].arguments]]

Min(a, b) == IF a < b THEN a ELSE b

\* What the backend may answer to a request: a failure, a structured value
\* (a request with a schema), or a message with text or with tool calls
\* (tool calls only when the request carries a tool manifest).
Replies(request, issued) ==
  {[kind |-> "fail", tool_calls |-> <<>>]}
  \cup (IF request.response_model = "schema"
        THEN {[kind |-> "json", tool_calls |-> <<>>]}
        ELSE {[kind |-> "text", tool_calls |-> <<>>]}
             \cup (IF "tools" \in request.keys
                   THEN {[kind |-> "calls", tool_calls |-> WithIds(c, issued)]
                           : c \in CallLists(Min(MaxCalls, MaxToolCalls - issued))}
                   ELSE {}))

\* mutant: the structured reply is appended without its sender
HistoryMsgNoSender(a, reply) ==
  IF AgentDef[a].response_model
  THEN Msg("assistant", <<"json">>, None, <<>>, 0, None)
  ELSE Msg("assistant",
           IF reply.kind = "text" THEN <<"text">> ELSE <<>>,
           AgentDef[a].name, reply.tool_calls, 0, None)

\* the assistant message appended for a reply (run, l.67-79)
HistoryMsg(a, reply) ==
  IF AgentDef[a].response_model
  THEN Msg("assistant", <<"json">>, AgentDef[a].name, <<>>, 0, None)
  ELSE Msg("assistant",
           IF reply.kind = "text" THEN <<"text">> ELSE <<>>,
           AgentDef[a].name, reply.tool_calls, 0, None)

NoRequest ==
  [messages |-> <<>>, keys |-> {}, response_model |-> None, tool_choice |-> None,
   client |-> None]

\* no next_agent function has been called: its arguments and its result
NoPolicyCall == [context_variables |-> EmptyCtx, history_msg |-> SystemMsg(<<>>)]
NoResult ==
  [type |-> "unset", result |-> FuncResult(<<>>, None, EmptyCtx), agent |-> None,
   other |-> 0]
NoResponse == TaskResponse(<<>>, None, EmptyCtx)

\* a run() that has not been called
Idle ==
  [pc |-> "idle", agent |-> None, query |-> None, arg |-> None,
   active_agent |-> None, loop_count |-> 0, context_variables |-> "m",
   history |-> <<>>, init_len |-> 0, history_msg |-> SystemMsg(<<>>),
   request |-> NoRequest, backend_calls |-> 0, issued |-> 0,
   tool_calls |-> <<>>, call_idx |-> 0, function_map |-> {},
   partial_response |-> NoResponse, invoked |-> <<>>, policy_calls |-> 0,
   call_result |-> FuncResult(<<>>, None, EmptyCtx),
   next_agent |-> None, policy_args |-> NoPolicyCall, result |-> NoResult,
   returned |-> NoResponse, error |-> None]

Init ==
  /\ messages \in Seeds
  /\ max_interactions \in 0..MaxTurns
  /\ dicts \in {d \in [DictIds -> Ctx] :
                  /\ d["own1"] = EmptyCtx /\ d["own2"] = EmptyCtx
                  /\ d["m"] \in {EmptyCtx, [k \in Keys |-> IF k = "k2" THEN "v1" ELSE Absent]}}
  /\ run = [r \in Runs |-> Idle]

\* mutant: the history is the runner's own list, not a copy of it, so the
\* query is appended to the persistent messages
StartNoCopy(r, agent, query, arg) ==
  /\ run[r].pc = "idle"
  /\ run' = [run EXCEPT ![r] =
       [@ EXCEPT !.pc = "loop", !.agent = agent, !.query = query, !.arg = arg,
                 !.loop_count = 0, !.active_agent = agent,
                 !.context_variables =
                    IF arg # None /\ Truthy(dicts[arg]) THEN arg ELSE Own(r),
                 !.history = Append(messages, UserMsg(query)),
                 !.init_len = Len(messages) + 1]]
  /\ dicts' = [dicts EXCEPT ![Own(r)] = EmptyCtx]
  /\ messages' = Append(messages, UserMsg(query))
  /\ UNCHANGED max_interactions

\* run(agent, query, context_variables), l.29-36
Start(r, agent, query, arg) ==
  /\ run[r].pc = "idle"
  /\ run' = [run EXCEPT ![r] =
       [@ EXCEPT !.pc = "loop", !.agent = agent, !.query = query, !.arg = arg,
                 !.loop_count = 0, !.active_agent = agent,
                 !.context_variables =
                    IF arg # None /\ Truthy(dicts[arg]) THEN arg ELSE Own(r),
                 !.history = Append(messages, UserMsg(query)),
                 !.init_len = Len(messages) + 1]]
  /\ dicts' = [dicts EXCEPT ![Own(r)] = EmptyCtx]
  /\ UNCHANGED <<messages, max_interactions>>

\* mutant: the agent the run was called with is returned
ResponseFirstAgent(r) ==
  TaskResponse(Slice(run[r].history, run[r].init_len),
               run[r].agent,
               dicts[run[r].context_variables])

\* the TaskResponse run returns, l.132-136
Response(r) ==
  TaskResponse(Slice(run[r].history, run[r].init_len),
               run[r].active_agent,
               dicts[run[r].context_variables])

\* the request of the turn, l.42-60
Request(r) ==
  ChooseClient(run[r].active_agent,
               CreateInferenceRequest(run[r].active_agent, run[r].history,
                                      dicts[run[r].context_variables]))

\* mutant: a failed backend call is swallowed and the turn is tried again
BackendFailureRetry(s, request) ==
  [s EXCEPT !.request = request, !.backend_calls = @ + 1]

\* client.chat.completions.create raises, l.63: nothing in run catches it
BackendFailure(s, request) ==
  [s EXCEPT !.pc = "raised", !.error = "BackendError",
            !.request = request, !.backend_calls = @ + 1]

\* mutant: the turn is counted once more for the message appended
CountTurnTwice(loop_count) == loop_count + 2

\* loop_count += 1, l.82
CountTurn(loop_count) == loop_count + 1

\* mutant: the limit is tested right after the turn is counted, before the
\* tool calls of the message are handled
TurnLimitFirst(r, reply) ==
  LET s == run[r]
      history_msg == HistoryMsg(s.active_agent, reply)
  IN  /\ s.pc = "loop"
      /\ LoopGuard(s.loop_count, max_interactions)
      /\ run' = [run EXCEPT ![r] =
           IF reply.kind = "fail"
           THEN BackendFailure(s, Request(r))
           ELSE [s EXCEPT !.request = Request(r),
                          !.backend_calls = @ + 1,
                          !.history_msg = history_msg,
                          !.history = Append(@, history_msg),
                          !.loop_count = CountTurn(@),
                          !.issued = @ + Len(reply.tool_calls),
                          !.pc = IF ~LoopGuard(s.loop_count + 1, max_interactions)
                                 THEN "loop"
                                 ELSE IF history_msg.tool_calls # <<>>
                                 THEN "tools" ELSE "route",
                          !.tool_calls = history_msg.tool_calls,
                          !.call_idx = 1,
                          !.function_map = Range(AgentDef[s.active_agent].functions),
                          !.partial_response = NoResponse]]
      /\ UNCHANGED <<messages, max_interactions, dicts>>

\* One turn up to the dispatch on the reply, l.38-85, for the reply the
\* backend gives: build the request, call the backend once, append the
\* assistant message and count the turn.
Turn(r, reply) ==
  LET s == run[r]
      history_msg == HistoryMsg(s.active_agent, reply)
  IN  /\ s.pc = "loop"
      /\ LoopGuard(s.loop_count, max_interactions)
      /\ run' = [run EXCEPT ![r] =
           IF reply.kind = "fail"
           THEN BackendFailure(s, Request(r))
           ELSE [s EXCEPT !.request = Request(r),
                          !.backend_calls = @ + 1,
                          !.history_msg = history_msg,
                          !.history = Append(@, history_msg),
                          !.loop_count = CountTurn(@),
                          !.issued = @ + Len(reply.tool_calls),
                          !.pc = IF history_msg.tool_calls # <<>>
                                 THEN "tools" ELSE "route",
                          \* handle_tool_calls, l.37-38
                          !.tool_calls = history_msg.tool_calls,
                          !.call_idx = 1,
                          !.function_map = Range(AgentDef[s.active_agent].functions),
                          !.partial_response = NoResponse]]
      /\ UNCHANGED <<messages, max_interactions, dicts>>

\* a turn with any reply the backend can give to the request
BackendCall(r) ==
  /\ run[r].pc = "loop"
  /\ \E reply \in Replies(Request(r), run[r].issued) : Turn(r, reply)

\* mutant: once a call returned an agent, later calls are looked up in that
\* agent's functions
FunctionsMapOfLatest(s) ==
  IF s.partial_response.agent # None
  THEN {AgentDef[s.partial_response.agent].functions[i] :
          i \in DOMAIN AgentDef[s.partial_response.agent].functions}
  ELSE s.function_map

\* the functions_map handle_tool_calls built before its loop and passes to
\* every __handle_call, l.37 and l.42
FunctionsMap(s) == s.function_map

\* mutant: the calls are taken from the end of the list
NextCallReversed(tool_calls, idx) == tool_calls[Len(tool_calls) + 1 - idx]

\* for tool_call in tool_calls: the call of the idx-th iteration
NextCall(tool_calls, idx) == tool_calls[idx]

\* mutant: the arguments are parsed before the tool is looked up
HandleCallParseFirst(r) ==
  LET s == run[r]
      tool_call == NextCall(s.tool_calls, s.call_idx)
      name == tool_call.name
      result == HandleFunctionResult(ToolReturn(name))
      partial == s.partial_response
  IN  /\ s.pc = "tools"
      /\ s.call_idx <= Len(s.tool_calls)
      /\ run' = [run EXCEPT ![r] =
           IF ~JsonLoads(tool_call.arguments).ok
           THEN [s EXCEPT !.pc = "raised", !.error = "JSONDecodeError"]
           ELSE IF NotInMap(name, FunctionsMap(s))
           THEN [s EXCEPT !.partial_response.messages =
                             Append(@, ToolMsg(name, tool_call.id, NotFoundContent(name))),
                          !.call_idx = @ + 1]
           ELSE IF ToolReturn(name).type = "raise"
           THEN [s EXCEPT !.invoked = Append(@, name),
                          !.pc = "raised", !.error = "ToolError"]
           ELSE [s EXCEPT !.invoked = Append(@, name),
                          !.call_result = result,
                          !.partial_response =
                             TaskResponse(
                               Append(partial.messages,
                                      ToolMsg(name, tool_call.id, result.value)),
                               MergeAgent(partial.agent, result.agent),
                               MergeContext(partial.context_variables,
                                            result.context_variables)),
                          !.call_idx = @ + 1]]
      /\ UNCHANGED <<messages, max_interactions, dicts>>

\* __handle_call for the next tool call of the turn, result_handler.py l.45-84
HandleCall(r) ==
  LET s == run[r]
      tool_call == NextCall(s.tool_calls, s.call_idx)
      name == tool_call.name
      result == HandleFunctionResult(ToolReturn(name))
      partial == s.partial_response
  IN  /\ s.pc = "tools"
      /\ s.call_idx <= Len(s.tool_calls)
      /\ run' = [run EXCEPT ![r] =
           IF NotInMap(name, FunctionsMap(s))
           THEN [s EXCEPT !.partial_response.messages =
                             Append(@, ToolMsg(name, tool_call.id, NotFoundContent(name))),
                          !.call_idx = @ + 1]
           ELSE IF ~JsonLoads(tool_call.arguments).ok
           THEN [s EXCEPT !.pc = "raised", !.error = "JSONDecodeError"]
           ELSE IF ToolReturn(name).type = "raise"
           THEN [s EXCEPT !.invoked = Append(@, name),
                          !.pc = "raised", !.error = "ToolError"]
           ELSE [s EXCEPT !.invoked = Append(@, name),
                          !.call_result = result,
                          !.partial_response =
                             TaskResponse(
                               Append(partial.messages,
                                      ToolMsg(name, tool_call.id, result.value)),
                               MergeAgent(partial.agent, result.agent),
                               MergeContext(partial.context_variables,
                                            result.context_variables)),
                          !.call_idx = @ + 1]]
      /\ UNCHANGED <<messages, max_interactions, dicts>>

\* mutant: a resolved agent is not made the active agent
SwitchAgentKeep(active_agent, agent) == active_agent

\* if <agent>: active_agent = <agent>, l.98-100 and l.123-125
SwitchAgent(active_agent, agent) == IF agent # None THEN agent ELSE active_agent

\* mutant: a tool turn without a handoff ends the run
ToolsDoneBreak(r) ==
  LET s == run[r]
      tool_response == s.partial_response
      after == [s EXCEPT !.history = @ \o tool_response.messages,
                         !.active_agent = SwitchAgent(@, tool_response.agent)]
  IN  /\ s.pc = "tools"
      /\ s.call_idx > Len(s.tool_calls)
      /\ run' = [run EXCEPT ![r] =
           IF tool_response.agent # None
           THEN [after EXCEPT !.pc = "loop"]
           ELSE [after EXCEPT !.pc = "done",
                              !.returned =
                                 TaskResponse(Slice(after.history, s.init_len),
                                              after.active_agent,
                                              dicts[s.context_variables])]]
      /\ UNCHANGED <<messages, max_interactions, dicts>>

\* after handle_tool_calls returned, l.92-102
ToolsDone(r) ==
  LET s == run[r]
      tool_response == s.partial_response
  IN  /\ s.pc = "tools"
      /\ s.call_idx > Len(s.tool_calls)
      /\ run' = [run EXCEPT ![r] =
           [s EXCEPT !.history = @ \o tool_response.messages,
                     !.active_agent = SwitchAgent(@, tool_response.agent),
                     !.pc = "loop"]]
      /\ dicts' = IF Truthy(tool_response.context_variables)
                  THEN [dicts EXCEPT ![s.context_variables] =
                          Update(@, tool_response.context_variables)]
                  ELSE dicts
      /\ UNCHANGED <<messages, max_interactions>>

\* mutant: only a returned Agent is taken as next agent, a FuncResult's is not
NextOfAgentOnly(ret) == ret.agent

\* the next agent a next_agent function's return value names, l.116-121
NextOf(ret) == IF ret.type = "FuncResult" THEN ret.result.agent ELSE ret.agent

\* where the loop goes after the policy was consulted, l.123-127
AfterPolicy(next_agent) == "loop"

\* mutant: the handoff starts the next agent on the history before this run
RouteAgentFresh(r) ==
  LET s == run[r]
      policy == AgentDef[s.active_agent].next_agent
  IN  /\ s.pc = "route"
      /\ policy # <<>>
      /\ policy[1].kind = "agent"
      /\ run' = [run EXCEPT ![r] =
           [s EXCEPT !.next_agent = policy[1].agent,
                     !.active_agent = SwitchAgent(@, policy[1].agent),
                     !.history = SubSeq(@, 1, s.init_len),
                     !.pc = AfterPolicy(policy[1].agent)]]
      /\ UNCHANGED <<messages, max_interactions, dicts>>

\* no tool calls, next_agent[0] is an Agent, l.106-110 and l.123-127
RouteAgent(r) ==
  LET s == run[r]
      policy == AgentDef[s.active_agent].next_agent
  IN  /\ s.pc = "route"
      /\ policy # <<>>
      /\ policy[1].kind = "agent"
      /\ run' = [run EXCEPT ![r] =
           [s EXCEPT !.next_agent = policy[1].agent,
                     !.active_agent = SwitchAgent(@, policy[1].agent),
                     !.pc = AfterPolicy(policy[1].agent)]]
      /\ UNCHANGED <<messages, max_interactions, dicts>>

\* no tool calls, next_agent[0] is a function returning `ret`, l.106-127
RouteFn(r, ret) ==
  LET s == run[r]
      policy == AgentDef[s.active_agent].next_agent
      next_agent == NextOf(ret)
  IN  /\ s.pc = "route"
      /\ policy # <<>>
      /\ policy[1].kind = "fn"
      /\ run' = [run EXCEPT ![r] =
           [s EXCEPT !.policy_calls = @ + 1,
                     !.policy_args = [context_variables |-> dicts[s.context_variables],
                                      history_msg |-> s.history_msg],
                     !.result = ret,
                     !.next_agent = next_agent,
                     !.active_agent = SwitchAgent(@, next_agent),
                     !.pc = AfterPolicy(next_agent)]]
      /\ dicts' = IF ret.type = "FuncResult" /\ Truthy(ret.result.context_variables)
                  THEN [dicts EXCEPT ![s.context_variables] =
                          Update(@, ret.result.context_variables)]
                  ELSE dicts
      /\ UNCHANGED <<messages, max_interactions>>

\* mutant: an empty next_agent continues the loop instead of ending it
BreakContinue(r) ==
  /\ run[r].pc = "route"
  /\ AgentDef[run[r].active_agent].next_agent = <<>>
  /\ run' = [run EXCEPT ![r].pc = "loop"]
  /\ UNCHANGED <<messages, max_interactions, dicts>>

\* no tool calls and an empty next_agent: break, then return, l.106, l.129-136
Break(r) ==
  LET s == run[r]
  IN  /\ s.pc = "route"
      /\ AgentDef[s.active_agent].next_agent = <<>>
      /\ run' = [run EXCEPT ![r] = [s EXCEPT !.pc = "done", !.returned = Response(r)]]
      /\ UNCHANGED <<messages, max_interactions, dicts>>

\* mutant: reaching the limit raises instead of returning
ReturnRaises(r) ==
  /\ run[r].pc = "loop"
  /\ ~LoopGuard(run[r].loop_count, max_interactions)
  /\ run' = [run EXCEPT ![r].pc = "raised", ![r].error = "BudgetExceededError"]
  /\ UNCHANGED <<messages, max_interactions, dicts>>

\* the loop condition is false: return, l.38 and l.132-136
Return(r) ==
  LET s == run[r]
  IN  /\ s.pc = "loop"
      /\ ~LoopGuard(s.loop_count, max_interactions)
      /\ run' = [run EXCEPT ![r] = [s EXCEPT !.pc = "done", !.returned = Response(r)]]
      /\ UNCHANGED <<messages, max_interactions, dicts>>

\* one caller, one run() at a time
Next ==
  \/ \E a \in {n \in AgentNames : Constructible(n)}, q \in Queries, arg \in CtxArgs :
       Start(1, a, q, arg)
  \/ BackendCall(1)
  \/ HandleCall(1)
  \/ ToolsDone(1)
  \/ RouteAgent(1)
  \/ \E ret \in PolicyReturns : RouteFn(1, ret)
  \/ Break(1)
  \/ Return(1)

Spec == Init /\ [][Next]_vars

\* ------------------------------------------------- two interleaved runs
\* Two callers of the same AppRunner, e.g. two threads: each step is a step of
\* one of the two run() invocations. To keep the product of the two runs
\* small the callers start agent A or S and the backend asks for at most one
\* tool call per message, t1 or t3 with valid arguments.
PairAgents == {"A", "S"}

PairReplies(r) ==
  {reply \in Replies(Request(r), run[r].issued) :
     /\ Len(reply.tool_calls) <= 1
     /\ \A i \in DOMAIN reply.tool_calls :
          /\ reply.tool_calls[i].name \in {"t1", "t3"}
          /\ reply.tool_calls[i].arguments = GoodArgs}

\* a turn of run r with one of those replies
BackendCallPair(r) ==
  /\ run[r].pc = "loop"
  /\ \E reply \in PairReplies(r) : Turn(r, reply)

NextPair ==
  \E r \in Runs :
    \/ \E a \in PairAgents, q \in Queries, arg \in CtxArgs : Start(r, a, q, arg)
    \/ BackendCallPair(r)
    \/ HandleCall(r)
    \/ ToolsDone(r)
    \/ \E ret \in PolicyReturns : RouteFn(r, ret)
    \/ Break(r)
    \/ Return(r)

SpecPair == Init /\ [][NextPair]_vars

\* ================================================================ claims
\* the run has ended: it returned, or an exception left it
Ended(r) == run[r].pc \in {"done", "raised"}

\* the run returned a TaskResponse
Returned(r) == run[r].pc = "done"

\* the context the run holds now
Context(r) == dicts[run[r].context_variables]

\* the messages the run put into its history after the seed and the query
Produced(r) ==
  SubSeq(run[r].history, Len(messages) + 2, Len(run[r].history))

\* the first assistant message of the run
FirstReply(r) == run[r].history[Len(messages) + 2]

\* the run has received its first backend reply
HasFirstReply(r) == Len(run[r].history) >= Len(messages) + 2

\* An upper bound on the steps a run has left: a turn is one backend call,
\* at most MaxCalls tool calls and one step after them.
TurnCost == MaxCalls + 2
Variant(r) ==
  LET s == run[r]
      turns == (max_interactions - s.loop_count) * TurnCost
  IN  CASE s.pc = "idle"  -> (MaxTurns + 1) * TurnCost + 2
        [] s.pc = "loop"  -> turns + 1
        [] s.pc = "tools" -> turns + 2 + (Len(s.tool_calls) + 1 - s.call_idx)
        [] s.pc = "route" -> turns + 2
        [] OTHER          -> 0

\* C1: whatever the initial agent and whatever the backend replies (tool calls
\* on every turn included), run never makes more than max_interactions backend
\* calls, and it cannot loop forever: a run that has not ended can always take
\* a step, and every step lowers a non-negative bound on the steps left.
C1_BoundedRun ==
  /\ [](/\ run[1].backend_calls <= max_interactions
        /\ run[1].loop_count <= max_interactions
        /\ Variant(1) >= 0
        /\ (~Ended(1) => ENABLED Next))
  /\ [][Variant(1)' < Variant(1)]_vars

\* C1 witness: a run of MaxTurns turns in which every reply carried tool
\* calls, ended by the turn limit
C1_Witness ==
  /\ Returned(1)
  /\ max_interactions = MaxTurns
  /\ run[1].backend_calls = max_interactions
  /\ \A i \in DOMAIN run[1].returned.messages :
       run[1].returned.messages[i].role = "assistant"
         => run[1].returned.messages[i].tool_calls # <<>>

\* a tool-calling agent: non-empty functions, no response_model
ToolAgent(a) == AgentDef[a].functions # <<>> /\ ~AgentDef[a].response_model

\* the first reply of a run started with a tool-calling agent has no tool calls
PlainFirstTurn(r) ==
  /\ run[r].agent # None
  /\ ToolAgent(run[r].agent)
  /\ HasFirstReply(r)
  /\ FirstReply(r).tool_calls = <<>>

\* what C2 promises of such a run
OneTurnRun(r) ==
  /\ run[r].backend_calls = 1
  /\ run[r].pc \in {"route", "done"}
  /\ run[r].active_agent = run[r].agent
  /\ Returned(r) =>
       /\ run[r].returned.messages = <<FirstReply(r)>>
       /\ run[r].returned.agent = run[r].agent

\* C2 as stated: a tool-calling agent whose first reply carries no tool calls
\* ends the run after exactly one backend call, with that one assistant
\* message and the agent unchanged.
C2_Original == PlainFirstTurn(1) => OneTurnRun(1)

\* C2 amended: the same, for a tool-calling agent whose next_agent is empty.
C2_PlainReplyEndsRun ==
  (PlainFirstTurn(1) /\ AgentDef[run[1].agent].next_agent = <<>>) => OneTurnRun(1)

\* C2 witness: such a run has returned
C2_Witness ==
  /\ PlainFirstTurn(1)
  /\ AgentDef[run[1].agent].next_agent = <<>>
  /\ Returned(1)
  /\ max_interactions = MaxTurns

\* the turn had no tool calls, its next_agent policy was consulted and it
\* yielded no agent (None, or a FuncResult without agent)
PolicyYieldedNone(r) ==
  /\ run[r].pc = "loop"
  /\ run[r].loop_count >= 1
  /\ run[r].history_msg.tool_calls = <<>>
  /\ AgentDef[run[r].active_agent].next_agent # <<>>
  /\ run[r].next_agent = None

\* C3 as stated: when a turn without tool calls consults the next_agent
\* policy and the policy yields no agent, the run ends in that turn: its next
\* step is the return, with no further backend call and the active agent
\* unchanged.
C3_NoNextAgentEndsRun ==
  [][PolicyYieldedNone(1)
     => (/\ run[1]'.pc = "done"
         /\ run[1]'.backend_calls = run[1].backend_calls
         /\ run[1]'.returned.agent = run[1].active_agent)]_vars

\* the agent the tool fixtures hand off to
HandoffOf(name) ==
  CASE name = "t1" -> "B" [] name = "t2" -> "C" [] name = "t4" -> "B"
    [] OTHER -> None

\* agent A's first reply requests exactly one tool, and its outcome carries
\* a next agent
HandoffFirstTurn(r) ==
  /\ run[r].agent = "A"
  /\ HasFirstReply(r)
  /\ Len(FirstReply(r).tool_calls) = 1
  /\ FirstReply(r).tool_calls[1].arguments = GoodArgs
  /\ HandoffOf(FirstReply(r).tool_calls[1].name) # None

\* C4: after a turn in which A's tool returned next agent B, the next backend
\* call is made with B as the active agent; when B (no tools, no policy) then
\* answers in plain text, run returns agent B and exactly the three messages
\* assistant (A, with the call), tool result (the tool's text), assistant (B).
C4_HandoffByTool ==
  HandoffFirstTurn(1) =>
    LET name == FirstReply(1).tool_calls[1].name
        target == HandoffOf(name)
        text == IF name = "t1" THEN <<"ok">>
                ELSE <<"{\"assistant\": \"", "B", "\"}">>
    IN  /\ (run[1].pc = "loop" /\ run[1].loop_count = 1)
             => run[1].active_agent = target
        /\ run[1].backend_calls = 2
             => run[1].request.messages[1].content = <<"prompt of ", target>>
        /\ (target = "B" /\ Returned(1) /\ run[1].backend_calls = 2)
             => /\ run[1].returned.agent = "B"
                /\ run[1].returned.messages =
                     << Msg("assistant", <<>>, "A",
                            <<[id |-> 1, name |-> name, arguments |-> "{}"]>>, 0, None),
                        Msg("tool", text, None, <<>>, 1, name),
                        Msg("assistant", <<"text">>, "B", <<>>, 0, None) >>

\* C4 witness: the scenario ran to its end
C4_Witness ==
  /\ HandoffFirstTurn(1)
  /\ FirstReply(1).tool_calls[1].name = "t1"
  /\ Returned(1)
  /\ run[1].backend_calls = 2
  /\ Len(run[1].returned.messages) = 3

\* the agent a handled call returned, None when it returned none or the tool
\* is not one of the functions
AgentOfCall(call, functions) ==
  IF call.name \in Range(functions) THEN HandoffOf(call.name) ELSE None

\* the agent returned by the last call, in request order, that returned one
LastAgent(calls, functions) ==
  LET I == {i \in DOMAIN calls : AgentOfCall(calls[i], functions) # None}
  IN  IF I = {} THEN None
      ELSE AgentOfCall(calls[CHOOSE i \in I : \A j \in I : j <= i], functions)

\* the run is between a turn's last tool call and the next loop test
AfterTools(r) ==
  /\ run[r].pc = "loop"
  /\ run[r].history # <<>>
  /\ run[r].history[Len(run[r].history)].role = "tool"

\* C5: the agent the resolver reports is the one returned by the last call,
\* in request order, that returned an agent (a call returning none resets
\* nothing), and that agent is the active agent of the next turn.
C5_LastAgentWins ==
  LET s == run[1]
      functions == AgentDef[s.history_msg.sender].functions
  IN  /\ s.pc = "tools"
           => s.partial_response.agent =
                LastAgent(SubSeq(s.tool_calls, 1, s.call_idx - 1), functions)
      /\ AfterTools(1)
           => s.active_agent =
                IF LastAgent(s.tool_calls, functions) # None
                THEN LastAgent(s.tool_calls, functions)
                ELSE s.history_msg.sender

\* C5 witness: two calls of one turn returned different agents, and the later
\* one is active
C5_Witness ==
  /\ AfterTools(1)
  /\ Len(run[1].tool_calls) = 2
  /\ run[1].tool_calls[1].name = "t1"
  /\ run[1].tool_calls[2].name = "t2"
  /\ run[1].history_msg.sender = "A"
  /\ run[1].active_agent = "C"

\* one context patch after another, in request order
RECURSIVE ApplyPatches(_, _)
ApplyPatches(cv, patches) ==
  IF patches = <<>> THEN cv
  ELSE ApplyPatches([k \in Keys |-> IF Head(patches)[k] # Absent
                                    THEN Head(patches)[k] ELSE cv[k]],
                    Tail(patches))

\* the context_variables the tool fixtures return in their FuncResult
PatchOf(name) ==
  CASE name = "t1" -> [k \in Keys |-> IF k = "k1" THEN "v1" ELSE Absent]
    [] name = "t2" -> [k \in Keys |-> "v2"]
    [] OTHER -> EmptyCtx

\* the patches of the calls of a turn that reached their tool
PatchesOf(calls, functions) ==
  [i \in DOMAIN calls |->
     IF calls[i].name \in Range(functions) THEN PatchOf(calls[i].name) ELSE EmptyCtx]

\* C6 as stated: after a turn with tool calls the run context is the context
\* before it overwritten, key by key, with the context patches of the turn's
\* tool outcomes in request order.
C6_PatchesMerged ==
  [][(run[1].pc = "tools" /\ run[1]'.pc = "loop")
     => dicts'[run[1].context_variables] =
          ApplyPatches(Context(1),
                       PatchesOf(run[1].tool_calls,
                                 AgentDef[run[1].active_agent].functions))]_vars

\* C7: a call naming a tool that is not among the active agent's functions
\* adds exactly one tool message with the call's id and the content
\* "Error: tool <name> not found", raises nothing, invokes no tool and sets no
\* agent, and the resolver moves on to the next call.
C7_UnknownToolIsMessage ==
  [][(/\ run[1].pc = "tools"
      /\ run[1].call_idx <= Len(run[1].tool_calls)
      /\ run[1].tool_calls[run[1].call_idx].name
           \notin Range(AgentDef[run[1].active_agent].functions))
     => LET call == run[1].tool_calls[run[1].call_idx]
        IN  /\ run[1]'.partial_response.messages =
                 Append(run[1].partial_response.messages,
                        Msg("tool", <<"Error: tool ", call.name, " not found">>,
                            None, <<>>, call.id, call.name))
            /\ run[1]'.partial_response.agent = run[1].partial_response.agent
            /\ run[1]'.invoked = run[1].invoked
            /\ run[1]'.error = None
            /\ run[1]'.pc = "tools"
            /\ run[1]'.call_idx = run[1].call_idx + 1]_vars

\* C7 witness: an unknown tool was answered with the error message and the
\* call after it was handled too
C7_Witness ==
  /\ run[1].pc = "tools"
  /\ Len(run[1].partial_response.messages) = 2
  /\ run[1].partial_response.messages[1].content = <<"Error: tool ", "ghost", " not found">>
  /\ run[1].partial_response.messages[2].content = <<"ok">>

\* C8: a call that names a registered tool and whose argument JSON does not
\* parse makes run raise: the tool is not invoked, no tool message is made for
\* the call, nothing is appended to the history and no TaskResponse is
\* returned, then or later.
C8_BadArgumentsRaise ==
  /\ [](run[1].error = "JSONDecodeError"
          => run[1].pc = "raised" /\ run[1].returned = NoResponse)
  /\ [][(/\ run[1].pc = "tools"
         /\ run[1].call_idx <= Len(run[1].tool_calls)
         /\ run[1].tool_calls[run[1].call_idx].name
              \in Range(AgentDef[run[1].active_agent].functions)
         /\ run[1].tool_calls[run[1].call_idx].arguments = BadArgs)
        => (/\ run[1]'.pc = "raised"
            /\ run[1]'.error = "JSONDecodeError"
            /\ run[1]'.invoked = run[1].invoked
            /\ run[1]'.partial_response = run[1].partial_response
            /\ run[1]'.history = run[1].history)]_vars
  /\ [][run[1].pc = "raised" => run[1]'.pc = "raised"]_vars

\* C8 witness: the second call of a turn had malformed arguments, after the
\* first was handled
C8_Witness ==
  /\ run[1].pc = "raised"
  /\ run[1].error = "JSONDecodeError"
  /\ run[1].call_idx = 2
  /\ Len(run[1].partial_response.messages) = 1
  /\ run[1].invoked = <<"t3">>

\* C9: the messages run returns are exactly what the run appended after the
\* seeded history and the query, in order: the history is the seed, the query
\* and the returned messages; none of them is a seeded or a user message.
C9_ReturnsOwnMessages ==
  Returned(1) =>
    /\ run[1].history = messages \o <<UserMsg(run[1].query)>> \o run[1].returned.messages
    /\ Len(run[1].returned.messages) = Len(run[1].history) - (Len(messages) + 1)
    /\ \A i \in DOMAIN run[1].returned.messages :
         run[1].returned.messages[i].role \in {"assistant", "tool"}

\* C9 witness: a run on a seeded runner returned several messages
C9_Witness ==
  /\ Returned(1)
  /\ messages # <<>>
  /\ Len(run[1].returned.messages) >= 3

\* the last n messages of a list
LastN(msgs, n) == SubSeq(msgs, Len(msgs) - n + 1, Len(msgs))

\* C10: when the turn count has reached max_interactions the run ends without
\* raising and returns all it has accumulated: every message after the query
\* (the tool results of the last turn included), the active agent and the
\* context.
C10_BudgetReturnsAll ==
  /\ [][(run[1].pc = "loop" /\ run[1].loop_count >= max_interactions)
        => (/\ run[1]'.pc = "done"
            /\ run[1]'.error = None
            /\ run[1]'.returned =
                 [messages |-> Produced(1),
                  agent |-> run[1].active_agent,
                  context_variables |-> Context(1)])]_vars
  /\ []((Returned(1) /\ run[1].loop_count >= max_interactions
          /\ run[1].history_msg.tool_calls # <<>>)
         => LET calls == run[1].history_msg.tool_calls
                tail == LastN(run[1].returned.messages, Len(calls))
            IN  /\ Len(run[1].returned.messages) > Len(calls)
                /\ \A i \in DOMAIN calls :
                     /\ tail[i].role = "tool"
                     /\ tail[i].tool_call_id = calls[i].id)

\* C10 witness: the limit ended a run whose last turn made two tool calls
C10_Witness ==
  /\ Returned(1)
  /\ max_interactions = MaxTurns
  /\ run[1].loop_count = max_interactions
  /\ Len(run[1].history_msg.tool_calls) = 2
  /\ run[1].returned.agent = "B"
  /\ run[1].agent = "A"

\* a run started with a schema-bound agent without next_agent policy has
\* received a (structured) reply
SchemaFirstTurn(r) ==
  /\ run[r].agent # None
  /\ AgentDef[run[r].agent].response_model
  /\ AgentDef[run[r].agent].next_agent = <<>>
  /\ HasFirstReply(r)

\* C11: an agent with a response_model and no next_agent policy that gets a
\* structured reply makes exactly one backend call, appends exactly one
\* assistant message (content the structured value, sender the agent's name,
\* no tool calls) and returns it with the agent unchanged.
C11_SchemaAgentOneTurn ==
  SchemaFirstTurn(1) =>
    /\ run[1].backend_calls = 1
    /\ run[1].pc \in {"route", "done"}
    /\ run[1].active_agent = run[1].agent
    /\ Produced(1) = <<Msg("assistant", <<"json">>, run[1].agent, <<>>, 0, None)>>
    /\ Returned(1) =>
         /\ run[1].returned.messages = Produced(1)
         /\ run[1].returned.agent = run[1].agent

\* C11 witness: such a run has returned
C11_Witness ==
  /\ SchemaFirstTurn(1)
  /\ Returned(1)
  /\ max_interactions = MaxTurns
  /\ Len(run[1].returned.messages) = 1

\* the structured values produced in a run: the contents of the assistant
\* messages appended for schema-bound agents, in order
StructuredValues(r) ==
  SelectSeq(Produced(r),
            LAMBDA m : /\ m.role = "assistant"
                       /\ m.sender \in AgentNames
                       /\ AgentDef[m.sender].response_model)

\* C12: when a schema-bound agent completed a turn, the returned value carries
\* the structured value as a field of its own next to messages, agent and
\* context_variables; when none did, there is no such field value.
C12_StructuredResultReturned ==
  Returned(1) =>
    IF StructuredValues(1) # <<>>
    THEN /\ "structured_result" \in DOMAIN run[1].returned
         /\ {"messages", "agent", "context_variables"} \subseteq DOMAIN run[1].returned
    ELSE "structured_result" \notin DOMAIN run[1].returned

\* C14: the mapping the caller passes as context_variables is never modified
\* by the runner: no step of a run changes its keys or values.
C14_CallerMappingUntouched == [][dicts'["m"] = dicts["m"]]_vars

\* the descriptor has both a non-empty functions list and a response_model
ToolsAndSchema(a) == AgentDef[a].functions # <<>> /\ AgentDef[a].response_model

\* C15: an Agent with both a non-empty functions list and a response_model
\* cannot be constructed, so no such agent is ever the active agent of a run.
C15_NoToolSchemaAgent ==
  run[1].active_agent # None =>
    /\ Constructible(run[1].active_agent)
    /\ ~ToolsAndSchema(run[1].active_agent)

\* C16: the backend is called once per turn and never retried: while no call
\* failed there are as many calls as counted turns; a failing call of turn k is
\* the k-th call, it ends the run with the error and without a TaskResponse,
\* and in that turn no tool, no policy and no further step is executed.
C16_BackendOncePerTurn ==
  /\ [](/\ run[1].error = None => run[1].backend_calls = run[1].loop_count
        /\ run[1].error = "BackendError" =>
             /\ run[1].pc = "raised"
             /\ run[1].backend_calls = run[1].loop_count + 1
             /\ run[1].returned = NoResponse)
  /\ [][/\ run[1].pc # "raised"
        /\ run'[1].error = "BackendError" =>
             /\ run'[1].backend_calls = run[1].backend_calls + 1
             /\ run'[1].invoked = run[1].invoked
             /\ run'[1].policy_calls = run[1].policy_calls
             /\ run'[1].history = run[1].history
             /\ run'[1].active_agent = run[1].active_agent
             /\ dicts' = dicts]_vars

\* C16 witness: the call of the second turn failed, after a first turn that
\* executed a tool
C16_Witness ==
  /\ run[1].error = "BackendError"
  /\ run[1].backend_calls = 2
  /\ run[1].loop_count = 1
  /\ Len(run[1].invoked) = 1

\* the agent the tool calls of the last turn leave active
AgentAfterTools(r) ==
  LET sender == run[r].history_msg.sender
      last == LastAgent(run[r].tool_calls, AgentDef[sender].functions)
  IN  IF last # None THEN last ELSE sender

\* C17: when the resolver returned from a turn with tool calls, the run goes
\* back to the loop test and never returns there; with turns left, the next
\* step is a backend call for the same agent (no handoff) or the new agent.
C17_ToolTurnLoops ==
  [][/\ (run[1].pc = "tools" /\ run'[1].pc \notin {"tools", "raised"}) =>
          /\ run'[1].pc = "loop"
          /\ run'[1].returned = NoResponse
          /\ run'[1].active_agent = AgentAfterTools(1)
     /\ (AfterTools(1) /\ run[1].loop_count < max_interactions) =>
          /\ run'[1].backend_calls = run[1].backend_calls + 1
          /\ run'[1].request.messages[1].role = "system"
          /\ run'[1].request.messages[1].content[2] = AgentAfterTools(1)]_vars

\* C17 witness: a second backend call was made for the same agent after a
\* tool turn without handoff
C17_Witness ==
  /\ run[1].backend_calls = 2
  /\ run[1].pc = "route"
  /\ run[1].agent = "A"
  /\ run[1].active_agent = "A"
  /\ run[1].history[Len(run[1].history) - 1].role = "tool"
  /\ run[1].request.messages[1].content[2] = "A"

\* C18: without tool calls, the first entry of a non-empty next_agent decides:
\* an Agent entry becomes the active agent; a function is called once with
\* the current context and the assistant message just appended, and the Agent
\* it returns, or the agent of the FuncResult it returns, becomes the active
\* agent; a FuncResult's context_variables are merged into the run context in
\* that same step, before the next turn.
C18_PolicyDecidesHandoff ==
  [][(run[1].pc = "route" /\ AgentDef[run[1].active_agent].next_agent # <<>>) =>
       LET s == run[1]
           t == run'[1]
           entry == AgentDef[s.active_agent].next_agent[1]
           patch == t.result.result.context_variables
       IN  /\ t.pc = "loop"
           /\ t.history = s.history
           /\ entry.kind = "agent" =>
                /\ t.active_agent = entry.agent
                /\ t.policy_calls = s.policy_calls
                /\ dicts' = dicts
           /\ entry.kind = "fn" =>
                /\ t.policy_calls = s.policy_calls + 1
                /\ t.policy_args.context_variables = Context(1)
                /\ t.policy_args.history_msg = s.history[Len(s.history)]
                /\ t.result.type = "Agent" =>
                     t.active_agent = t.result.agent /\ dicts' = dicts
                /\ t.result.type = "FuncResult" =>
                     /\ t.result.result.agent # None =>
                          t.active_agent = t.result.result.agent
                     /\ t.result.result.agent = None =>
                          t.active_agent = s.active_agent
                     /\ dicts'[t.context_variables] =
                          [k \in Keys |-> IF patch[k] # Absent THEN patch[k]
                                          ELSE Context(1)[k]]]_vars

\* C18 witness: a policy function returned a FuncResult naming B with a patch
\* for k1; B is active and the context holds the patch next to the old key
C18_Witness ==
  /\ run[1].pc = "loop"
  /\ run[1].agent = "S"
  /\ run[1].result.type = "FuncResult"
  /\ run[1].result.result.agent = "B"
  /\ run[1].active_agent = "B"
  /\ Context(1)["k1"] = "v1"
  /\ Context(1)["k2"] = "v1"

\* what a context reads as for a key: the empty string when the key is missing
Reads(cv, k) == IF cv[k] = Absent THEN "" ELSE cv[k]

\* C19: the request of every turn starts with a system message holding the
\* active agent's instructions, a callable evaluated on the context as it is at
\* the start of that turn and a string unchanged, followed by the whole
\* history in order.
C19_RequestIsSystemPlusHistory ==
  [][run'[1].backend_calls = run[1].backend_calls + 1 =>
       LET s == run[1]
           a == s.active_agent
           content == IF AgentDef[a].instructions = "callable"
                      THEN <<"prompt of ", a, Reads(Context(1), "k1"),
                             Reads(Context(1), "k2")>>
                      ELSE <<"prompt of ", a>>
       IN  /\ Len(run'[1].request.messages) = Len(s.history) + 1
           /\ run'[1].request.messages[1] =
                Msg("system", content, None, <<>>, 0, None)
           /\ \A i \in 1..Len(s.history) :
                run'[1].request.messages[i + 1] = s.history[i]]_vars

\* C19 witness: the second turn of S is requested with instructions that show
\* the patch its policy merged after the first turn
C19_Witness ==
  /\ run[1].backend_calls = 2
  /\ run[1].agent = "S"
  /\ run[1].request.messages[1].content = <<"prompt of ", "S", "v2", "v1">>
  /\ Len(run[1].request.messages) = Len(messages) + 3

\* the agent a request was built for
RequestAgent(r) == run[r].request.messages[1].content[2]

\* C20: a request for an agent with a response_model carries the schema and
\* none of tools, parallel_tool_calls and a tool_choice constraint; no request
\* carries both tools and a schema.
C20_SchemaRequestHasNoToolFields ==
  run[1].backend_calls > 0 =>
    LET request == run[1].request
    IN  /\ AgentDef[RequestAgent(1)].response_model =>
             /\ "response_model" \in request.keys
             /\ request.response_model = "schema"
             /\ "tools" \notin request.keys
             /\ "parallel_tool_calls" \notin request.keys
             /\ "tool_choice" \notin request.keys \/ request.tool_choice = None
        /\ ~("tools" \in request.keys /\ request.response_model = "schema")

\* the run is between its call and its end
Running(r) == run[r].pc \in {"loop", "tools", "route"}

\* C13: of two interleaved run() invocations on one AppRunner, a step of one
\* changes nothing the other holds: not its locals (history, active agent,
\* turn count, result) and not the context it works on.
C13_RunsAreIsolated ==
  [][\A r \in Runs, o \in Runs :
       (r # o /\ run'[r] # run[r]) =>
          /\ run'[o] = run[o]
          /\ Running(o) =>
               dicts'[run[o].context_variables] = dicts[run[o].context_variables]]_vars

\* message i of `msgs` answers call i of `calls`: a tool-role message with
\* that call's id and tool name and a text content
Answers(msgs, calls, n) ==
  /\ Len(msgs) = n
  /\ \A i \in 1..n :
       /\ msgs[i].role = "tool"
       /\ msgs[i].tool_call_id = calls[i].id
       /\ msgs[i].tool_name = calls[i].name
       /\ msgs[i].content # <<>>

\* C21: the resolver emits one tool-role message per handled request, in
\* request order, with the request's call id and tool name and a text; a
\* failing tool is answered the same way, by an error string, so the failure
\* of a tool never leaves the resolver as an exception.
C21_OneToolMessagePerCall ==
  /\ run[1].pc = "tools" =>
       Answers(run[1].partial_response.messages, run[1].tool_calls,
               run[1].call_idx - 1)
  /\ AfterTools(1) =>
       Answers(LastN(run[1].history, Len(run[1].tool_calls)), run[1].tool_calls,
               Len(run[1].tool_calls))
  /\ run[1].error # "ToolError"

\* C22: the calls of a turn are handled one at a time in the order of the
\* list: a step of the resolver handles the call after the ones already
\* answered, starts at most that call's tool and then either records its
\* message or raises; backend call, tool execution and policy call never
\* happen in one step, each only at its own place in the turn.
C22_CallsRunInOrder ==
  /\ [](run[1].pc = "tools" =>
          /\ Len(run[1].partial_response.messages) = run[1].call_idx - 1
          /\ run[1].call_idx <= Len(run[1].tool_calls) + 1)
  /\ [][LET s == run[1]
            t == run'[1]
            called == t.backend_calls # s.backend_calls
            invoked == t.invoked # s.invoked
            decided == t.policy_calls # s.policy_calls
        IN  /\ called => s.pc = "loop" /\ ~invoked /\ ~decided
            /\ invoked => s.pc = "tools" /\ ~decided
            /\ decided => s.pc = "route"
            /\ (s.pc = "tools" /\ s.call_idx <= Len(s.tool_calls)) =>
                 LET call == s.tool_calls[s.call_idx]
                 IN  /\ t.invoked \in {s.invoked, Append(s.invoked, call.name)}
                     /\ \/ t.pc = "raised"
                        \/ /\ t.pc = "tools"
                           /\ t.call_idx = s.call_idx + 1
                           /\ Len(t.partial_response.messages) = s.call_idx
                           /\ SubSeq(t.partial_response.messages, 1, s.call_idx - 1)
                                = s.partial_response.messages
                           /\ t.partial_response.messages[s.call_idx].tool_call_id
                                = call.id
                           /\ t.partial_response.messages[s.call_idx].tool_name
                                = call.name]_vars

\* C22 witness: two different tools of one message have run, in list order
C22_Witness ==
  /\ run[1].pc = "tools"
  /\ Len(run[1].tool_calls) = 2
  /\ run[1].call_idx = 3
  /\ run[1].invoked = <<run[1].tool_calls[1].name, run[1].tool_calls[2].name>>
  /\ run[1].tool_calls[1].name # run[1].tool_calls[2].name

\* `old` is the beginning of `new`
IsPrefix(old, new) ==
  /\ Len(old) <= Len(new)
  /\ \A i \in 1..Len(old) : new[i] = old[i]

\* C23: within a run the history only grows at its end: every step of a run
\* that has been called leaves the history it had as the beginning of the
\* history it has, handoffs included.
C23_HistoryAppendOnly ==
  [][run[1].pc # "idle" => IsPrefix(run[1].history, run'[1].history)]_vars

\* C23 witness: after a handoff by the next_agent policy the new agent's reply
\* stands behind the messages of the agent before it
C23_Witness ==
  /\ run[1].agent = "C"
  /\ run[1].active_agent = "B"
  /\ run[1].backend_calls = 2
  /\ run[1].pc = "route"
  /\ Len(run[1].history) = Len(messages) + 3
  /\ run[1].history[Len(messages) + 2].sender = "C"
  /\ run[1].history[Len(messages) + 3].sender = "B"

\* the resolver has just executed the tool `name` and recorded its message
JustRan(r, name) ==
  /\ run[r].pc = "tools"
  /\ run[r].call_idx > 1
  /\ run[r].tool_calls[run[r].call_idx - 1].name = name
  /\ name \in run[r].function_map

\* C24: what a tool returns is normalized by kind: a FuncResult (t1, t2) is
\* taken as it is; an Agent returned directly (t4 returns B) becomes an
\* outcome with that agent, a text that only names it and an empty context
\* patch; any other value (t3 returns 42) becomes its string form with no
\* agent and no context patch.
C24_ResultsNormalized ==
  /\ JustRan(1, "t1") =>
       run[1].call_result =
         [value |-> <<"ok">>, agent |-> "B",
          context_variables |-> [k \in Keys |-> IF k = "k1" THEN "v1" ELSE Absent]]
  /\ JustRan(1, "t2") =>
       run[1].call_result =
         [value |-> <<"v2">>, agent |-> "C",
          context_variables |-> [k \in Keys |-> "v2"]]
  /\ JustRan(1, "t4") =>
       run[1].call_result =
         [value |-> <<"{\"assistant\": \"", "B", "\"}">>, agent |-> "B",
          context_variables |-> [k \in Keys |-> Absent]]
  /\ JustRan(1, "t3") =>
       run[1].call_result =
         [value |-> <<"42">>, agent |-> None,
          context_variables |-> [k \in Keys |-> Absent]]

\* C24 witness: one message asked for the tool returning an Agent and then
\* for the tool returning a number, and both were normalized
C24_Witness ==
  /\ JustRan(1, "t3")
  /\ run[1].call_idx = 3
  /\ run[1].tool_calls[1].name = "t4"
  /\ run[1].partial_response.agent = "B"
  /\ run[1].partial_response.messages[1].content = <<"{\"assistant\": \"", "B", "\"}">>
  /\ run[1].partial_response.messages[2].content = <<"42">>

\* in `msgs` every assistant message with tool calls is directly followed by
\* one tool-role message per call, in call order and with the calls' ids,
\* and by no further tool-role message
ToolCallsAnswered(msgs) ==
  \A i \in DOMAIN msgs :
    (msgs[i].role = "assistant" /\ msgs[i].tool_calls # <<>>) =>
      LET n == Len(msgs[i].tool_calls)
      IN  /\ i + n <= Len(msgs)
          /\ \A j \in 1..n :
               /\ msgs[i + j].role = "tool"
               /\ msgs[i + j].tool_call_id = msgs[i].tool_calls[j].id
               /\ msgs[i + j].tool_name = msgs[i].tool_calls[j].name
          /\ i + n < Len(msgs) => msgs[i + n + 1].role = "assistant"

\* C25: in the messages of a run that returns, every assistant message with
\* tool calls is directly followed by exactly one tool-role message per call,
\* in call order and with matching ids, also when the run stopped at
\* max_interactions.
C25_ReturnedCallsAnswered ==
  Returned(1) => ToolCallsAnswered(run[1].returned.messages)

\* C25 witness: the last allowed turn asked for two tools; the run returned
\* the assistant message and the two results
C25_Witness ==
  /\ Returned(1)
  /\ run[1].loop_count = max_interactions
  /\ max_interactions = MaxTurns
  /\ Len(run[1].tool_calls) = 2
  /\ LET msgs == run[1].returned.messages
     IN  /\ Len(msgs) >= 3
         /\ msgs[Len(msgs) - 2].role = "assistant"
         /\ msgs[Len(msgs) - 2].tool_calls = run[1].tool_calls
         /\ msgs[Len(msgs)].role = "tool"

\* the backend calls of the run that came back with a reply
Completed(r) ==
  run[r].backend_calls - (IF run[r].error = "BackendError" THEN 1 ELSE 0)

\* the assistant messages the run appended
Assistant(r) == SelectSeq(Produced(r), LAMBDA m : m.role = "assistant")

\* C26: the turn counter always equals the number of completed backend calls
\* and the number of assistant messages appended in the run, for schema-bound
\* agents as for tool-calling ones, and never exceeds max_interactions, so
\* handoffs by policy between schema-bound agents end there as well.
C26_TurnsAreCounted ==
  run[1].pc # "idle" =>
    /\ run[1].loop_count = Completed(1)
    /\ run[1].loop_count = Len(Assistant(1))
    /\ run[1].loop_count <= max_interactions
    /\ (run[1].pc = "loop" /\ run[1].loop_count = max_interactions) =>
         ~ENABLED BackendCall(1)

\* C26 witness: the schema-bound agent S was handed back to itself by its
\* policy on every turn, and the run returned at the limit
C26_Witness ==
  /\ Returned(1)
  /\ run[1].agent = "S"
  /\ run[1].active_agent = "S"
  /\ max_interactions = MaxTurns
  /\ run[1].loop_count = MaxTurns
  /\ run[1].policy_calls = MaxTurns
  /\ run[1].result.type = "Agent"
  /\ Len(run[1].returned.messages) = MaxTurns

\* C27: every call of one assistant message is looked up in the functions of
\* the agent that produced the message: while the calls are handled that
\* agent stays the active agent, a call naming one of its functions reaches
\* the tool and a call naming none is answered "not found", also after an
\* earlier call of the turn returned another agent.
C27_LookupInSendersTools ==
  /\ [](run[1].pc = "tools" =>
          /\ run[1].active_agent = run[1].history_msg.sender
          /\ run[1].function_map =
               Range(AgentDef[run[1].history_msg.sender].functions))
  /\ [][(run[1].pc = "tools" /\ run[1].call_idx <= Len(run[1].tool_calls)
         /\ run'[1].pc = "tools") =>
          LET s == run[1]
              call == s.tool_calls[s.call_idx]
              own == Range(AgentDef[s.history_msg.sender].functions)
              answer == run'[1].partial_response.messages[s.call_idx]
          IN  IF call.name \in own
              THEN /\ run'[1].invoked = Append(s.invoked, call.name)
                   /\ answer.content # <<"Error: tool ", call.name, " not found">>
              ELSE /\ run'[1].invoked = s.invoked
                   /\ answer.content = <<"Error: tool ", call.name, " not found">>]_vars

\* C27 witness: A's first call returned agent B, which has no tools, and A's
\* second call still reached A's tool t3
C27_Witness ==
  /\ run[1].pc = "tools"
  /\ run[1].history_msg.sender = "A"
  /\ run[1].call_idx = 3
  /\ run[1].tool_calls[1].name = "t1"
  /\ run[1].tool_calls[2].name = "t3"
  /\ run[1].partial_response.agent = "B"
  /\ run[1].invoked = <<"t1", "t3">>
  /\ run[1].partial_response.messages[2].content = <<"42">>

\* C28: the active agent of a run changes only by a handoff: at the end of a
\* tool turn to the agent a tool outcome carried, or in the policy step to the
\* agent the next_agent policy yielded. The backend's reply itself, and a tool
\* turn whose calls were unknown or returned plain values, leave it as it is,
\* and run returns the agent that is active when the loop ends.
C28_AgentChangesByHandoffOnly ==
  [][LET s == run[1]
         t == run'[1]
     IN  /\ (s.pc # "idle" /\ t.active_agent # s.active_agent) =>
              \/ /\ s.pc = "tools" /\ t.pc = "loop"
                 /\ LastAgent(s.tool_calls, AgentDef[s.active_agent].functions)
                      = t.active_agent
              \/ /\ s.pc = "route"
                 /\ AgentDef[s.active_agent].next_agent # <<>>
                 /\ t.next_agent = t.active_agent
                 /\ \/ AgentDef[s.active_agent].next_agent[1].agent = t.active_agent
                    \/ t.result.agent = t.active_agent
                    \/ t.result.result.agent = t.active_agent
         /\ (s.pc = "tools" /\ t.pc = "loop"
             /\ \A i \in DOMAIN s.tool_calls :
                  \/ s.tool_calls[i].name \notin Range(AgentDef[s.active_agent].functions)
                  \/ s.tool_calls[i].name = "t3") =>
              t.active_agent = s.active_agent
         /\ (s.pc # "done" /\ t.pc = "done") =>
              /\ t.returned.agent = s.active_agent
              /\ t.active_agent = s.active_agent]_vars

\* C28 witness: a run called with A returned C, the agent A's tool t2
\* handed off to
C28_Witness ==
  /\ Returned(1)
  /\ run[1].agent = "A"
  /\ run[1].returned.agent = "C"
  /\ run[1].active_agent = "C"
  /\ run[1].invoked[1] = "t2"

\* C29: the tool is looked up before its arguments are parsed: a call that
\* names a tool the agent does not have and whose arguments are no JSON is
\* answered by the "not found" message without an error, so a run that ended
\* in the parse error was handling a call to one of the agent's tools.
C29_LookupBeforeParse ==
  /\ [](run[1].error = "JSONDecodeError" =>
          /\ run[1].pc = "raised"
          /\ run[1].tool_calls[run[1].call_idx].arguments = "{"
          /\ run[1].tool_calls[run[1].call_idx].name
               \in Range(AgentDef[run[1].history_msg.sender].functions))
  /\ [][LET s == run[1]
            call == s.tool_calls[s.call_idx]
        IN  (/\ s.pc = "tools" /\ s.call_idx <= Len(s.tool_calls)
             /\ call.arguments = "{"
             /\ call.name \notin Range(AgentDef[s.history_msg.sender].functions)) =>
               /\ run'[1].pc = "tools"
               /\ run'[1].error = None
               /\ run'[1].invoked = s.invoked
               /\ run'[1].partial_response.messages =
                    Append(s.partial_response.messages,
                           Msg("tool", <<"Error: tool ", call.name, " not found">>,
                               None, <<>>, call.id, call.name))]_vars

\* C29 witness: a call to the unknown tool "ghost" with unparseable arguments
\* was answered, and the resolver went on to the next call
C29_Witness ==
  /\ run[1].pc = "tools"
  /\ run[1].call_idx = 2
  /\ Len(run[1].tool_calls) = 2
  /\ run[1].tool_calls[1].name = "ghost"
  /\ run[1].tool_calls[1].arguments = "{"
  /\ run[1].error = None
  /\ run[1].partial_response.messages[1].content = <<"Error: tool ", "ghost", " not found">>

\* C30: no step of any run changes AppRunner.messages, and every run,
\* whatever ran before it or runs beside it, starts from exactly that seeded
\* list followed by its own query and keeps it as the beginning of its
\* history.
C30_RunnerMessagesUntouched ==
  /\ [](\A r \in Runs :
          run[r].pc # "idle" =>
            /\ run[r].init_len = Len(messages) + 1
            /\ SubSeq(run[r].history, 1, Len(messages)) = messages
            /\ run[r].history[Len(messages) + 1].role = "user")
  /\ [][/\ messages' = messages
        /\ \A r \in Runs :
             (run[r].pc = "idle" /\ run'[r].pc # "idle") =>
                run'[r].history =
                  Append(messages,
                         Msg("user", <<run'[r].query>>, None, <<>>, 0, None))]_vars

\* C30 witness: on a runner with a seeded list two runs have returned, and
\* both produced messages of their own
C30_Witness ==
  /\ messages # <<>>
  /\ \A r \in Runs :
       /\ Returned(r)
       /\ run[r].returned.messages # <<>>
       /\ Len(run[r].history) > Len(messages) + 1

====
